---- MODULE Spec2Model ----
(***************************************************************************)
(* State-machine model of ControlToggler (solarnetwork-control-toggler     *)
(* 3.0.1): the cached datum and instruction, the poll timer, the           *)
(* asynchronous value(desiredValue) and update() calls and the network     *)
(* responses that settle them.                                             *)
(*                                                                         *)
(* Encoding of JavaScript values.  A control value carries its type in its *)
(* first letter: "n0" "n1" are the numbers 0 and 1, "s0" "s1" "strue" the  *)
(* strings "0" "1" "true", "bT" the boolean true, "undefined" undefined.   *)
(* An optional object is a sequence of length at most one: <<>> is         *)
(* undefined, <<x>> is the object x.                                       *)
(***************************************************************************)
EXTENDS Integers, Sequences, FiniteSets, TLC

VARIABLES
    keyValid,               \* this.#auth.signingKeyValid
    callback,               \* this.callback: which kind of function is registered
    lastKnownDatum,         \* this.#lastKnownDatum
    lastKnownInstruction,   \* this.#lastKnownInstruction
    timer,                  \* this.#timer: "undefined", "null" or "handle"
    timeouts,               \* the pending setTimeout entries of this instance
    sv,                     \* the value(desiredValue) calls and their requests in flight
    up,                     \* the update() calls and their requests in flight
    ev,                     \* what the last step did that a caller can observe
    merge,                  \* an application of #mostRecentValue: arguments and result
    selected,               \* an application of #getActiveInstruction: argument and result
    remote                  \* the remote side once it changes no more: its newest datum
                            \* of the control and the state its instructions ended in

vars == <<keyValid, callback, lastKnownDatum, lastKnownInstruction, timer, timeouts, sv, up, ev,
          merge, selected, remote>>

----------------------------------------------------------------------------
(* Bounds *)

MaxSetCalls == 1        \* value(desiredValue) calls with a request in flight
MaxUpdates == 1         \* update() calls in flight
MaxInFlight == 1        \* calls of either kind in flight
MaxId == 2              \* instruction ids 1..MaxId
MaxTime == 2            \* datum timestamps 1..MaxTime
MaxOrphans == 1         \* pending timeouts no longer referenced by #timer
MaxPending == 2         \* entries of a viewPending response

----------------------------------------------------------------------------
(* Program constants *)

DefaultStartMs == 20
refreshMs == 20000
pendingRefreshMs == 5000

InstructionStates == {"Queuing", "Queued", "Received", "Executing", "Completed", "Declined"}
InstructionActiveStates == {"Queuing", "Queued", "Received", "Executing"}
\* a finished set that shares Executing with the active set
InstructionFinishedStates_WithExecuting == {"Executing", "Completed", "Declined"}

InstructionFinishedStates == {"Completed", "Declined"}

\* the state names a response can carry: those of InstructionStates and one
\* that is not the name of any of them
ResponseStates == InstructionStates \cup {"Complete"}

None == <<>>
Some(x) == <<x>>
IsSome(o) == Len(o) > 0
Get(o) == o[1]

----------------------------------------------------------------------------
(* Input domains *)

SetCalls == 1..MaxSetCalls
Updates == 1..MaxUpdates
Ids == 1..MaxId
Times == 1..MaxTime

DesiredValues == {"n0", "n1", "bT"}
DatumValues == {"n0", "n1"}
ParamValues == {"s0", "s1"}

\* Instructions the remote side can hold: ids are handed out in creation
\* order, so the creation time of an instruction is its id.
RemoteInstruction(id, state, value) ==
    [id |-> id, created |-> id, state |-> state, value |-> value]

Datum(val, created) == [val |-> val, created |-> created]

DatumInputs == {None} \cup {Some(Datum(v, t)) : v \in DatumValues, t \in Times}

\* Entries of a viewPending response: instructions of this control, one of
\* another control and one of another topic.
PendingEntries ==
    {[topicOk |-> TRUE, nameOk |-> TRUE, instr |-> RemoteInstruction(i, s, v)] :
        i \in Ids, s \in {"Queued", "Executing"}, v \in ParamValues}
    \cup {[topicOk |-> TRUE, nameOk |-> FALSE, instr |-> RemoteInstruction(MaxId, "Queued", "s1")],
          [topicOk |-> FALSE, nameOk |-> TRUE, instr |-> RemoteInstruction(MaxId, "Queued", "s1")]}

PendingListInputs ==
    UNION {[1..n -> PendingEntries] : n \in 0..MaxPending}

----------------------------------------------------------------------------
(* JavaScript conversions *)

\* Number(v); NaN is -1 and is never equal to anything
ToNumber(v) ==
    CASE v \in {"n0", "s0", "sE"} -> 0
      [] v \in {"n1", "s1", "bT"} -> 1
      [] OTHER -> -1

IsString(v) == v \in {"s0", "s1", "strue", "sE"}
IsNumber(v) == v \in {"n0", "n1"}
IsBoolean(v) == v = "bT"

\* a === b in place of a == b
LooseEq_Strict(a, b) == a = b

\* a == b
LooseEq(a, b) ==
    IF a = "undefined" \/ b = "undefined" THEN a = b
    ELSE IF (IsString(a) /\ IsString(b)) \/ (IsNumber(a) /\ IsNumber(b))
              \/ (IsBoolean(a) /\ IsBoolean(b)) THEN a = b
    ELSE ToNumber(a) # -1 /\ ToNumber(a) = ToNumber(b)

\* String(v)
String(v) ==
    CASE v \in {"n0", "s0"} -> "s0"
      [] v \in {"n1", "s1"} -> "s1"
      [] v = "bT" -> "strue"
      [] OTHER -> v

\* if (v): undefined, 0 and the empty string "sE" are falsy
Truthy(v) == v \notin {"undefined", "n0", "sE"}

----------------------------------------------------------------------------
(* ControlToggler: private helpers *)

\* this.#lastKnownDatum?.val
DatumVal(datum) == IF IsSome(datum) THEN Get(datum).val ELSE "undefined"

\* this.#lastKnownInstruction?.instructionState: the InstructionState named by
\* the state of the instruction, undefined when the name is not one of them
InstructionStateOf(instr) ==
    IF IsSome(instr) /\ Get(instr).state \in InstructionStates
    THEN Get(instr).state
    ELSE "undefined"

\* Find the active SetControlParameter instruction for the control id: an
\* entry of the pending list is [topicOk, nameOk, instr].
\* the test of the control id left out
Qualifies_AnyControl(curr) == curr.topicOk

\* lines 152-156: a SetControlParameter instruction whose first parameter is
\* named after the control id
Qualifies(curr) == curr.topicOk /\ curr.nameOk

RECURSIVE ReduceActive(_, _)
ReduceActive(data, prev) ==
    IF data = <<>> THEN prev
    ELSE LET curr == Head(data)
             next == IF Qualifies(curr)
                        /\ (prev = None \/ Get(prev).created < curr.instr.created)
                     THEN Some(curr.instr)
                     ELSE prev
         IN  ReduceActive(Tail(data), next)

getActiveInstruction(data) ==
    IF Len(data) = 0 THEN None ELSE ReduceActive(data, None)

lastKnownInstructionValue(instr) ==
    IF IsSome(instr) THEN Get(instr).value ELSE "undefined"

\* the active states of version 0.2.1, which lack Queuing
hasPendingStateChange_NoQueuing(instr) ==
    InstructionStateOf(instr) \in {"Queued", "Received", "Executing"}

\* pending taken to mean not finished
hasPendingStateChange_NotFinished(instr) ==
    IsSome(instr) /\ Get(instr).state \notin InstructionFinishedStates

hasPendingStateChange(instr) ==
    LET state == InstructionStateOf(instr)
    IN  state # "undefined" /\ state \in InstructionActiveStates

\* the two intervals exchanged, as in version 0.2.1
currentRefreshMs_Inverted(instr) ==
    IF hasPendingStateChange(instr) THEN refreshMs ELSE pendingRefreshMs

currentRefreshMs(instr) ==
    IF hasPendingStateChange(instr) THEN pendingRefreshMs ELSE refreshMs

\* a Declined instruction taken for any other
IsDeclined_Never(instruction) == FALSE

\* line 210: InstructionStates.Declined.equals(instruction.state)
IsDeclined(instruction) == Get(instruction).state = "Declined"

\* >= in place of >
Newer_OrEqual(statusDate, instructionDate) == statusDate >= instructionDate

\* line 224: statusDate > instructionDate
Newer(statusDate, instructionDate) == statusDate > instructionDate

\* created = 0 stands for an object without a date
mostRecentValue(controlDatum, instruction) ==
    IF ~IsSome(instruction) \/ IsDeclined(instruction)
    THEN DatumVal(controlDatum)
    ELSE IF ~IsSome(controlDatum)
    THEN Get(instruction).value
    ELSE LET statusDate == Get(controlDatum).created
             instructionDate == Get(instruction).created
         IN  IF ~(statusDate # 0 /\ instructionDate # 0) THEN "undefined"
             ELSE IF Newer(statusDate, instructionDate)
                  THEN Get(controlDatum).val
                  ELSE Get(instruction).value

----------------------------------------------------------------------------
(* The poll timer.  #timer holds "undefined" (never started), "null"       *)
(* (stopped) or "handle" (the id returned by the last setTimeout).         *)
(* timeouts.cur says whether the timeout #timer refers to is still         *)
(* pending and timeouts.orphans counts the pending timeouts whose id was   *)
(* overwritten in #timer.  T is the triple [timer, timeouts, ms], ms the   *)
(* delay of the timeout set last in the current step (0: none was set).    *)

NoTimeouts == [cur |-> FALSE, orphans |-> 0]

TimerState == [timer |-> timer, timeouts |-> timeouts, ms |-> 0]

\* #timer = setTimeout(update, ms), whatever #timer held
setTimer(T, ms) ==
    [timer |-> "handle",
     timeouts |-> [cur |-> TRUE,
                   orphans |-> T.timeouts.orphans + (IF T.timeouts.cur THEN 1 ELSE 0)],
     ms |-> ms]

\* start(when) without the test of #timer
start_Unguarded(T, when) ==
    setTimer(T, IF when = 0 THEN DefaultStartMs ELSE when)

start(T, when) ==
    IF T.timer # "handle"
    THEN setTimer(T, IF when = 0 THEN DefaultStartMs ELSE when)
    ELSE T

stop(T) ==
    IF T.timer = "handle"
    THEN [T EXCEPT !.timer = "null", !.timeouts.cur = FALSE]
    ELSE T

\* What the callback does when #notifyDelegate calls it: "none" (no callback is
\* registered), "return", "stop" (it calls stop() and returns) or "throw" (it
\* throws an exception).
CallbackActs(acts) == IF callback = "undefined" THEN {"none"} ELSE acts

notifyDelegate(T, act) ==
    IF act = "stop" THEN stop(T) ELSE T

\* #notifyDelegate without its try/catch
Escapes_Uncaught(act) == act = "throw"

\* lines 129-137: does an exception thrown by the callback leave
\* #notifyDelegate?
Escapes(act) == FALSE

\* number of times #notifyDelegate invokes a callback
Invoked == IF callback = "undefined" THEN 0 ELSE 1

----------------------------------------------------------------------------
(* Observable events: what the last step did.                              *)
(*   op       the step                                                     *)
(*   settle   "resolved"/"rejected" when the step settles the promise the  *)
(*            call returned, else "none"                                   *)
(*   err      the error of the step: "InvalidCredentials", "network"       *)
(*   retCmd   the instruction a value(desiredValue) promise resolves with  *)
(*   retVal   the value an update() promise resolves with                  *)
(*   cb       number of callback invocations, cbErr their argument         *)
(*   reqs     the requests the call has issued so far, in order            *)
(*   cancelId the instruction id of the cancel request issued in the step  *)
(*   ms       the delay of the timeout set in the step (0: none)           *)
(*   stopped  the callback called stop() in the step                       *)
(*   threw    the callback threw an exception in the step                  *)
(*   call     the call of value(desiredValue) the step is: its slot, its   *)
(*            argument and the instruction cached when it was made         *)
(*   cleared  the instruction the step removed from #lastKnownInstruction  *)
(*   looked   the instruction an update() looked up by id                  *)
(*   got      the answers to the requests of an update(): the datum of     *)
(*            the control, the active instruction, the instruction looked  *)
(*            up                                                           *)
(*   merged   the value #mostRecentValue returned in the step              *)
(*   late     the active instruction the handler of an update() found      *)
(*            cached that was not cached when update() was called          *)

Ev(op, settle, err, retCmd, retVal, cb, cbErr, reqs, cancelId, ms) ==
    [op |-> op, settle |-> settle, err |-> err, retCmd |-> retCmd, retVal |-> retVal,
     cb |-> cb, cbErr |-> cbErr, reqs |-> reqs, cancelId |-> cancelId, ms |-> ms,
     stopped |-> FALSE, threw |-> FALSE,
     call |-> [i |-> 0, desired |-> "undefined", held |-> None], cleared |-> None,
     looked |-> None, got |-> [datum |-> None, pending |-> None, exec |-> None],
     merged |-> "undefined", late |-> None]

\* the event of a step in which #notifyDelegate called a callback that did act
Notified(e, act) == [e EXCEPT !.stopped = (act = "stop"), !.threw = (act = "throw")]

\* the event of a call of value(desiredValue)
Called(e, i, desiredValue, held) ==
    [e EXCEPT !.call = [i |-> i, desired |-> desiredValue, held |-> held]]

\* the event of a step that assigned undefined to #lastKnownInstruction
Cleared(e, instr) == [e EXCEPT !.cleared = instr]

\* the event of a step in which update() merged the answers to its requests
Merged(e, looked, mostRecentDatum, pendingInstruction, execInstruction, newValue) ==
    [e EXCEPT !.looked = looked,
              !.got = [datum |-> mostRecentDatum, pending |-> pendingInstruction,
                       exec |-> execInstruction],
              !.merged = newValue]

\* the event of an update() whose handler ran after another call had cached
\* the active instruction instr
Late(e, looked, instr) ==
    [e EXCEPT !.late = IF hasPendingStateChange(instr) /\ instr # looked
                       THEN instr ELSE None]

Quiet(op, ms) == Ev(op, "none", "none", None, "undefined", 0, "none", <<>>, 0, ms)

IdleSet == [cancelOut |-> FALSE, chain |-> FALSE, enqOut |-> FALSE,
            param |-> "undefined", reqs |-> <<>>]

\* src: who called update() and when: "timer" (a timeout), "started" (a caller
\* while #timer held a timeout id), "stopped" (a caller while it held none)
IdleUpdate == [out |-> FALSE, exec |-> None, src |-> "none"]

\* no application of #mostRecentValue
NoMerge == [datum |-> None, instr |-> None, result |-> None]

\* the remote side still changes
NoRemote == [stable |-> FALSE, datum |-> None, final |-> "none"]

\* no application of #getActiveInstruction
NoSelect == [data |-> <<>>, done |-> FALSE, result |-> None]

\* number of calls with a request in flight
InFlight ==
    Cardinality({i \in SetCalls : sv[i].cancelOut \/ sv[i].enqOut})
        + Cardinality({j \in Updates : up[j].out})

Init ==
    /\ keyValid \in BOOLEAN
    /\ callback \in {"undefined", "function"}
    /\ lastKnownDatum = None
    /\ lastKnownInstruction = None
    /\ timer = "undefined"
    /\ timeouts = NoTimeouts
    /\ sv = [i \in SetCalls |-> IdleSet]
    /\ up = [j \in Updates |-> IdleUpdate]
    /\ ev = Quiet("init", 0)
    /\ merge = NoMerge
    /\ selected = NoSelect
    /\ remote = NoRemote

\* the credentials check left out
CredentialsValid_Unchecked(signingKeyValid) == TRUE

\* lines 294 and 356: may the call go on to issue requests?
CredentialsValid(signingKeyValid) == signingKeyValid

\* every .catch handler rethrows
PromiseOutcome_Rethrow(caught) == "rejected"

\* How the promise a call returned settles when a request of the call fails:
\* value(desiredValue) returns the promise the .catch handler is attached to,
\* update() returns the promise the .catch handler returns.
PromiseOutcome(caught) == IF caught THEN "resolved" ELSE "rejected"

----------------------------------------------------------------------------
(* value(desiredValue) *)

\* the active instructions #getActiveInstruction can select from a response
ActiveInputs == {getActiveInstruction(data) : data \in PendingListInputs}

\* any active instruction cancelled
ShouldCancel_AnyActive(instr, desiredValue) ==
    /\ hasPendingStateChange(instr)
    /\ ~LooseEq(lastKnownInstructionValue(instr), desiredValue)

\* line 305: cancel the pending instruction?
ShouldCancel(instr, desiredValue) ==
    /\ InstructionStateOf(instr) = "Queued"
    /\ ~LooseEq(lastKnownInstructionValue(instr), desiredValue)
    /\ IsSome(instr)

\* || in place of &&
ShouldEnqueue_Or(currentValue, pendingValue, desiredValue) ==
    ~LooseEq(currentValue, desiredValue) \/ ~LooseEq(pendingValue, desiredValue)

\* the value of the pending instruction left out of the test
ShouldEnqueue_IgnoresPending(currentValue, pendingValue, desiredValue) ==
    ~LooseEq(currentValue, desiredValue)

\* line 316: enqueue a new instruction?
ShouldEnqueue(currentValue, pendingValue, desiredValue) ==
    ~LooseEq(currentValue, desiredValue) /\ ~LooseEq(pendingValue, desiredValue)

\* the enqueue request issued without waiting for the cancel request
EnqueueNow_Concurrent(cancel) == TRUE

\* line 319: is the enqueue request issued by the call itself (TRUE), or by
\* the handler chained to the cancel promise?
EnqueueNow(cancel) == ~cancel

\* value(desiredValue): the synchronous part of the call
SetValue(i, desiredValue, inflight) ==
    /\ ~sv[i].cancelOut /\ ~sv[i].enqOut
    /\ InFlight < inflight
    /\ IF ~CredentialsValid(keyValid)
       THEN /\ ev' = Ev("setValue", "rejected", "InvalidCredentials", None, "undefined",
                        0, "none", <<>>, 0, 0)
            /\ UNCHANGED <<lastKnownInstruction, sv>>
       ELSE LET currentValue == DatumVal(lastKnownDatum)
                cancel == ShouldCancel(lastKnownInstruction, desiredValue)
                pendingValue == IF cancel THEN "undefined"
                                ELSE lastKnownInstructionValue(lastKnownInstruction)
                enqueue == ShouldEnqueue(currentValue, pendingValue, desiredValue)
                now == enqueue /\ EnqueueNow(cancel)
                reqs == (IF cancel THEN <<"cancel">> ELSE <<>>)
                        \o (IF now THEN <<"enqueue">> ELSE <<>>)
                cancelId == IF cancel THEN Get(lastKnownInstruction).id ELSE 0
            IN  /\ lastKnownInstruction' = IF cancel THEN None ELSE lastKnownInstruction
                /\ sv' = [sv EXCEPT ![i] =
                            [cancelOut |-> cancel,
                             chain |-> enqueue /\ ~now,
                             enqOut |-> now,
                             param |-> IF enqueue THEN String(desiredValue) ELSE "undefined",
                             reqs |-> reqs]]
                /\ ev' = Cleared(Called(IF enqueue
                                        THEN Ev("setValue", "none", "none", None,
                                                "undefined", 0, "none", reqs, cancelId, 0)
                                        ELSE Ev("setValue", "resolved", "none",
                                                lastKnownInstruction', "undefined", 0,
                                                "none", reqs, cancelId, 0),
                                        i, desiredValue, lastKnownInstruction),
                                 IF cancel THEN lastKnownInstruction ELSE None)
    /\ UNCHANGED <<remote, selected, merge, keyValid, callback, lastKnownDatum, timer, timeouts, up>>

\* the slot of call i once one of its requests is answered
Answered(i, field) ==
    IF (field = "cancelOut" /\ sv[i].enqOut) \/ (field = "enqOut" /\ sv[i].cancelOut)
    THEN [sv[i] EXCEPT ![field] = FALSE, !.chain = FALSE]
    ELSE IdleSet

\* the second clear left out
ClearedAgain_Kept(instr) == instr

\* line 321: this.#lastKnownInstruction = undefined in cancel.then
ClearedAgain(instr) == None

\* the cancel request of call i succeeds
CancelDone(i) ==
    /\ sv[i].cancelOut
    /\ IF sv[i].chain
       THEN \* cancel.then(...): clear again, issue the enqueue request
            /\ lastKnownInstruction' = ClearedAgain(lastKnownInstruction)
            /\ sv' = [sv EXCEPT ![i].cancelOut = FALSE, ![i].chain = FALSE,
                                ![i].enqOut = TRUE,
                                ![i].reqs = Append(sv[i].reqs, "enqueue")]
            /\ ev' = Cleared(Ev("cancelDone", "none", "none", None, "undefined", 0, "none",
                                sv'[i].reqs, 0, 0),
                             lastKnownInstruction)
       ELSE \* nothing is chained to the cancel promise
            /\ sv' = [sv EXCEPT ![i] = Answered(i, "cancelOut")]
            /\ ev' = Ev("cancelDone", "none", "none", None, "undefined", 0, "none",
                        sv[i].reqs, 0, 0)
            /\ UNCHANGED lastKnownInstruction
    /\ UNCHANGED <<remote, selected, merge, keyValid, callback, lastKnownDatum, timer, timeouts, up>>

\* the cancel request of call i fails
CancelFail(i, act) ==
    /\ sv[i].cancelOut
    /\ sv' = [sv EXCEPT ![i] = Answered(i, "cancelOut")]
    /\ IF sv[i].chain
       THEN \* the chained promise rejects: .catch notifies the delegate
            LET T == notifyDelegate(TimerState, act)
            IN  /\ timer' = T.timer
                /\ timeouts' = T.timeouts
                /\ ev' = Notified(Ev("cancelFail", PromiseOutcome(FALSE), "network", None,
                                     "undefined", Invoked,
                                     IF Invoked > 0 THEN "network" ELSE "none",
                                     sv[i].reqs, 0, 0), act)
       ELSE \* nothing is chained to the cancel promise: the rejection is unhandled
            /\ act \in {"none", "return"}
            /\ ev' = Ev("cancelFail", "none", "network", None, "undefined", 0, "none",
                        sv[i].reqs, 0, 0)
            /\ UNCHANGED <<timer, timeouts>>
    /\ UNCHANGED <<remote, selected, merge, keyValid, callback, lastKnownDatum, lastKnownInstruction, up>>

\* the requested value stored as the control value once the request is queued
EnqueuedDatum_Optimistic(datum, instr) ==
    Some(Datum(instr.value, instr.created))

\* lines 329-336: the datum the handler of the enqueue response leaves cached
EnqueuedDatum(datum, instr) == datum

\* the timer restarted whatever #timer holds
ShouldRestart_Always(T) == TRUE

\* line 332: if (this.#timer)
ShouldRestart(T) == T.timer = "handle"

\* the enqueue request of call i is answered with instruction instr; an
\* exception that left #notifyDelegate would end the handler and reach .catch
EnqueueDone(i, instr, act) ==
    /\ sv[i].enqOut
    /\ sv' = [sv EXCEPT ![i] = Answered(i, "enqOut")]
    /\ LET T1 == notifyDelegate(TimerState, act)
           T2 == IF ~Escapes(act) /\ ShouldRestart(T1)
                 THEN start(stop(T1), currentRefreshMs(Some(instr)))
                 ELSE T1
       IN  /\ lastKnownInstruction' = Some(instr)
           /\ lastKnownDatum' = EnqueuedDatum(lastKnownDatum, instr)
           /\ timer' = T2.timer
           /\ timeouts' = T2.timeouts
           /\ ev' = Notified(Ev("enqueueDone", "resolved", "none", Some(instr), "undefined",
                                IF Escapes(act) THEN 2 ELSE Invoked,
                                IF Escapes(act) THEN "callback" ELSE "none",
                                sv[i].reqs, 0, T2.ms), act)
    /\ UNCHANGED <<remote, selected, merge, keyValid, callback, up>>

\* the enqueue request of call i fails
EnqueueFail(i, act) ==
    /\ sv[i].enqOut
    /\ sv' = [sv EXCEPT ![i] = Answered(i, "enqOut")]
    /\ LET T == notifyDelegate(TimerState, act)
       IN  /\ timer' = T.timer
           /\ timeouts' = T.timeouts
    /\ ev' = Notified(Ev("enqueueFail", PromiseOutcome(FALSE), "network", None, "undefined",
                         Invoked, IF Invoked > 0 THEN "network" ELSE "none",
                         sv[i].reqs, 0, 0), act)
    /\ UNCHANGED <<remote, selected, merge, keyValid, callback, lastKnownDatum, lastKnownInstruction, up>>

----------------------------------------------------------------------------
(* update() *)

\* the lookup issued for any cached instruction
ShouldLookup_AnyInstruction(instr) == IsSome(instr)

\* line 370: is the by-id lookup of the last known instruction issued?
ShouldLookup(instr) ==
    /\ InstructionStateOf(instr) # "undefined"
    /\ InstructionStateOf(instr) \notin InstructionFinishedStates

\* the active instruction of the pending list preferred to the one looked up
MergeInstruction_PendingFirst(execInstruction, pendingInstruction, lastKnown) ==
    IF IsSome(pendingInstruction) THEN pendingInstruction
    ELSE IF IsSome(execInstruction) THEN execInstruction
    ELSE lastKnown

\* line 390: the instruction handed to #mostRecentValue
MergeInstruction(execInstruction, pendingInstruction, lastKnown) ==
    IF IsSome(execInstruction) THEN execInstruction
    ELSE IF IsSome(pendingInstruction) THEN pendingInstruction
    ELSE lastKnown

\* the caches replaced by every resolved update()
ShouldApply_Always(newValue, currValue, execInstruction) == TRUE

\* the caches replaced only when the merged value is not the current one
ShouldApply_ValueOnly(newValue, currValue, execInstruction) ==
    newValue # currValue

\* line 396: are the caches replaced and the delegate notified?
ShouldApply(newValue, currValue, execInstruction) ==
    newValue # currValue \/ IsSome(execInstruction)

\* the merged value written into the datum also while an instruction is pending
StoredDatum_ForcedWhilePending(mostRecentDatum, pendingInstruction, newValue) ==
    IF IsSome(mostRecentDatum) /\ Truthy(newValue)
    THEN Some([Get(mostRecentDatum) EXCEPT !.val = newValue])
    ELSE mostRecentDatum

\* lines 398-401: the datum stored, its value forced to the merged value
StoredDatum(mostRecentDatum, pendingInstruction, newValue) ==
    IF IsSome(mostRecentDatum) /\ ~IsSome(pendingInstruction) /\ Truthy(newValue)
    THEN Some([Get(mostRecentDatum) EXCEPT !.val = newValue])
    ELSE mostRecentDatum

\* the instruction looked up is never stored
StoredInstruction_PendingFirst(execInstruction, pendingInstruction) ==
    IF IsSome(pendingInstruction) THEN pendingInstruction ELSE None

\* the cached instruction kept when the answers hold none
StoredInstruction_KeepCached(execInstruction, pendingInstruction) ==
    IF IsSome(execInstruction) THEN execInstruction
    ELSE IF IsSome(pendingInstruction) THEN pendingInstruction
    ELSE lastKnownInstruction

\* lines 402-404: the instruction stored
StoredInstruction(execInstruction, pendingInstruction) ==
    IF IsSome(execInstruction) THEN execInstruction ELSE pendingInstruction

\* update() resolving with the value #mostRecentValue returned
UpdateResult_NewValue(datum, newValue) == newValue

\* line 414: return this.value()
UpdateResult(datum, newValue) == DatumVal(datum)

\* a resolved update() that sets no timeout
ShouldReschedule_Never(T) == FALSE

\* line 409: does a resolved update() set the next timeout?
ShouldReschedule(T) == T.timer # "undefined"

\* lines 416-419: what the .catch of update() does with the timer
RescheduleOnError(T, instr) == T

\* update(): the synchronous part of the call, made by a caller or a timeout
CallUpdate(j, op, inflight) ==
    /\ ~up[j].out
    /\ InFlight < inflight
    /\ IF ~CredentialsValid(keyValid)
       THEN /\ ev' = Ev(op, "rejected", "InvalidCredentials", None, "undefined", 0, "none",
                        <<>>, 0, 0)
            /\ UNCHANGED up
       ELSE LET lookup == ShouldLookup(lastKnownInstruction)
                reqs == <<"mostRecent", "viewPending">>
                        \o (IF lookup THEN <<"viewInstruction">> ELSE <<>>)
            IN  /\ up' = [up EXCEPT ![j] =
                            [out |-> TRUE,
                             exec |-> IF lookup THEN lastKnownInstruction ELSE None,
                             src |-> IF op = "timerUpdate" THEN "timer"
                                     ELSE IF timer = "handle" THEN "started"
                                     ELSE "stopped"]]
                /\ ev' = Ev(op, "none", "none", None, "undefined", 0, "none", reqs, 0, 0)
    /\ UNCHANGED <<remote, selected, merge, keyValid, callback, lastKnownDatum, lastKnownInstruction, sv>>

Update(j, inflight) ==
    /\ CallUpdate(j, "update", inflight)
    /\ UNCHANGED <<timer, timeouts>>

\* the timeout #timer refers to expires
TimerFire(j, inflight) ==
    /\ timeouts.cur
    /\ timeouts' = [timeouts EXCEPT !.cur = FALSE]
    /\ CallUpdate(j, "timerUpdate", inflight)
    /\ UNCHANGED timer

\* a timeout that #timer no longer refers to expires
OrphanFire(j, inflight) ==
    /\ timeouts.orphans > 0
    /\ timeouts' = [timeouts EXCEPT !.orphans = timeouts.orphans - 1]
    /\ CallUpdate(j, "timerUpdate", inflight)
    /\ UNCHANGED timer

\* the answers to the by-id lookup of update j: no data, or the instruction
\* looked up in the state the remote side holds it in
ExecInputs(j, states) ==
    IF IsSome(up[j].exec)
    THEN {None} \cup {Some([Get(up[j].exec) EXCEPT !.state = s]) : s \in states}
    ELSE {None}

\* all requests of update j are answered; an exception that left
\* #notifyDelegate would end the handler and reach .catch
UpdateDone(j, mostRecentDatum, pendingInstruction, execInstruction, act) ==
    /\ up[j].out
    /\ LET newValue == mostRecentValue(mostRecentDatum,
                           MergeInstruction(execInstruction, pendingInstruction,
                                            lastKnownInstruction))
           currValue == DatumVal(lastKnownDatum)
           apply == ShouldApply(newValue, currValue, execInstruction)
           instr == IF apply
                    THEN StoredInstruction(execInstruction, pendingInstruction)
                    ELSE lastKnownInstruction
           T1 == IF apply THEN notifyDelegate(TimerState, act) ELSE TimerState
           thrown == apply /\ Escapes(act)
           T2 == IF ~thrown /\ ShouldReschedule(T1)
                 THEN setTimer(T1, currentRefreshMs(instr))
                 ELSE T1
       IN  /\ apply \/ act \in {"none", "return"}
           /\ T2.timeouts.orphans <= MaxOrphans
           /\ lastKnownDatum' = IF apply
                                THEN StoredDatum(mostRecentDatum, pendingInstruction, newValue)
                                ELSE lastKnownDatum
           /\ lastKnownInstruction' = instr
           /\ timer' = T2.timer
           /\ timeouts' = T2.timeouts
           /\ ev' = Late(Merged(Notified(
                                IF thrown
                                THEN Ev("updateDone", "rejected", "callback", None,
                                        "undefined", 2, "callback", <<>>, 0, T2.ms)
                                ELSE Ev("updateDone", "resolved", "none", None,
                                        UpdateResult(lastKnownDatum', newValue),
                                        IF apply THEN Invoked ELSE 0, "none", <<>>, 0,
                                        T2.ms),
                                IF apply THEN act ELSE "none"),
                           up[j].exec, mostRecentDatum, pendingInstruction,
                           execInstruction, newValue),
                         up[j].exec, lastKnownInstruction)
    /\ up' = [up EXCEPT ![j] = IdleUpdate]
    /\ UNCHANGED <<remote, selected, merge, keyValid, callback, sv>>

\* the answers that did arrive are stored although another request failed
KeptOnError_Partial(cached, answered) ==
    IF IsSome(answered) THEN answered ELSE cached

\* lines 376-419: Promise.all rejects, the .then handler is skipped and the
\* .catch handler assigns nothing: what stays cached, whatever was answered
KeptOnError(cached, answered) == cached

\* one of the requests of update j fails; mostRecentDatum and
\* pendingInstruction are the answers to the requests that did not fail
UpdateFail(j, mostRecentDatum, pendingInstruction, act) ==
    /\ up[j].out
    /\ LET T == RescheduleOnError(notifyDelegate(TimerState, act), lastKnownInstruction)
       IN  /\ T.timeouts.orphans <= MaxOrphans
           /\ timer' = T.timer
           /\ timeouts' = T.timeouts
           /\ ev' = Notified(Ev("updateFail", PromiseOutcome(~Escapes(act)), "network", None,
                                "undefined", Invoked,
                                IF Invoked > 0 THEN "network" ELSE "none", <<>>, 0, T.ms), act)
    /\ lastKnownDatum' = KeptOnError(lastKnownDatum, mostRecentDatum)
    /\ lastKnownInstruction' = KeptOnError(lastKnownInstruction, pendingInstruction)
    /\ up' = [up EXCEPT ![j] = IdleUpdate]
    /\ UNCHANGED <<remote, selected, merge, keyValid, callback, sv>>

----------------------------------------------------------------------------
(* start(), stop() and the signing key *)

Start ==
    /\ LET T == start(TimerState, 0)
       IN  /\ timer' = T.timer
           /\ timeouts' = T.timeouts
           /\ ev' = Quiet("start", T.ms)
    /\ UNCHANGED <<remote, selected, merge, keyValid, callback, lastKnownDatum, lastKnownInstruction, sv, up>>

Stop ==
    /\ LET T == stop(TimerState)
       IN  /\ timer' = T.timer
           /\ timeouts' = T.timeouts
    /\ ev' = Quiet("stop", 0)
    /\ UNCHANGED <<remote, selected, merge, keyValid, callback, lastKnownDatum, lastKnownInstruction, sv, up>>

\* auth.saveSigningKey(secret)
SaveSigningKey ==
    /\ ~keyValid
    /\ keyValid' = TRUE
    /\ ev' = Quiet("key", 0)
    /\ UNCHANGED <<remote, selected, merge, callback, lastKnownDatum, lastKnownInstruction, timer, timeouts, sv, up>>

\* the saved signing key expires
KeyExpires ==
    /\ keyValid
    /\ keyValid' = FALSE
    /\ ev' = Quiet("key", 0)
    /\ UNCHANGED <<remote, selected, merge, callback, lastKnownDatum, lastKnownInstruction, timer, timeouts, sv, up>>

\* the instructions an enqueue request for parameter value v is answered with
EnqueueInputs(v, states) ==
    {RemoteInstruction(id, s, v) : id \in Ids, s \in states}

----------------------------------------------------------------------------
(* Specifications.  In is the record of the sets the inputs are drawn       *)
(* from.                                                                   *)

Calls(In) ==
    \/ \E i \in SetCalls, d \in In.desired : SetValue(i, d, In.inflight)
    \/ \E i \in SetCalls : CancelDone(i)
    \/ \E i \in SetCalls, a \in CallbackActs(In.acts) : CancelFail(i, a)
    \/ \E i \in SetCalls, a \in CallbackActs(In.acts) :
          \E instr \in EnqueueInputs(sv[i].param, In.enqueued) : EnqueueDone(i, instr, a)
    \/ \E i \in SetCalls, a \in CallbackActs(In.acts) : EnqueueFail(i, a)
    \/ \E j \in Updates : Update(j, In.inflight)
    \/ \E j \in Updates, a \in CallbackActs(In.acts) :
          \E d \in In.datums, p \in In.actives, e \in ExecInputs(j, In.looked) :
             UpdateDone(j, d, p, e, a)
    \/ \E j \in Updates, a \in CallbackActs(In.acts) :
          \E d \in In.datums, p \in In.actives : UpdateFail(j, d, p, a)

Polling(In) ==
    \/ \E j \in Updates : TimerFire(j, In.inflight)
    \/ \E j \in Updates : OrphanFire(j, In.inflight)
    \/ Start
    \/ Stop

Keys ==
    \/ SaveSigningKey
    \/ KeyExpires

\* the calls on a toggler that is never started
AllInputs ==
    [desired |-> DesiredValues, datums |-> DatumInputs, actives |-> ActiveInputs,
     enqueued |-> {"Queuing", "Queued"}, looked |-> ResponseStates,
     acts |-> {"return"}, inflight |-> MaxInFlight]

InitCalls == Init /\ keyValid /\ callback = "function"

Next == Calls(AllInputs)

Spec == InitCalls /\ [][Next]_vars

\* the started and stopped toggler, with a signing key that can expire
PollInputs ==
    [desired |-> {"n0", "n1"},
     datums |-> {None, Some(Datum("n0", 1)), Some(Datum("n1", MaxTime))},
     actives |-> {None, Some(RemoteInstruction(1, "Queued", "s1"))},
     enqueued |-> {"Queued"}, looked |-> {"Executing", "Completed"},
     acts |-> {"return", "stop", "throw"}, inflight |-> MaxInFlight]

NextPoll == Calls(PollInputs) \/ Polling(PollInputs) \/ Keys

SpecPoll == Init /\ [][NextPoll]_vars

\* update() alone, called again and again: the remote side holds instructions
\* of the control that ask for "1" or for the empty string
UpdateInputs ==
    [desired |-> {},
     datums |-> {None, Some(Datum("n0", 1)), Some(Datum("n1", MaxTime))},
     actives |-> {None, Some(RemoteInstruction(1, "Queued", "s1")),
                  Some(RemoteInstruction(MaxId, "Executing", "sE"))},
     enqueued |-> {}, looked |-> {"Executing", "Completed", "Declined"},
     acts |-> {"return"}, inflight |-> MaxInFlight]

NextUpdate ==
    \/ \E j \in Updates : Update(j, UpdateInputs.inflight)
    \/ \E j \in Updates :
          \E d \in UpdateInputs.datums, p \in UpdateInputs.actives,
             e \in ExecInputs(j, UpdateInputs.looked) :
             UpdateDone(j, d, p, e, "return")

SpecUpdate == InitCalls /\ [][NextUpdate]_vars

\* value(desiredValue) and update() in flight together, the remote side holding
\* a Queued instruction of the control
RaceInputs ==
    [desired |-> {"n0", "n1"},
     datums |-> {None, Some(Datum("n0", 1)), Some(Datum("n0", MaxTime))},
     actives |-> {None, Some(RemoteInstruction(1, "Queued", "s1"))},
     enqueued |-> {"Queued"}, looked |-> {"Queued", "Declined"},
     acts |-> {"return"}, inflight |-> MaxSetCalls + MaxUpdates]

NextRace == Calls(RaceInputs)

SpecRace == InitCalls /\ [][NextRace]_vars

\* polling while the remote side changes and after it has stopped changing;
\* every request succeeds and stop() is never called
LiveInputs ==
    [desired |-> {"n0", "n1"},
     datums |-> {None, Some(Datum("n0", 1))},
     actives |-> {None, Some(RemoteInstruction(1, "Queued", "s1"))},
     enqueued |-> {"Queued"}, looked |-> {"Executing"},
     acts |-> {"return"}, inflight |-> MaxInFlight]

\* the newest datum of the control once the remote side has stopped changing
StableDatums == {Datum(v, t) : v \in DatumValues, t \in Times}

\* does the toggler show the datum and no pending state change?
Shows(datum) ==
    /\ DatumVal(lastKnownDatum) = datum.val
    /\ ~hasPendingStateChange(lastKnownInstruction)

\* the remote side stops changing: no request of value(desiredValue) is in
\* flight, the newest datum of the control is datum, no instruction of the
\* control is pending and those there were ended in the state final
Stabilise(datum, final) ==
    /\ ~remote.stable
    /\ \A i \in SetCalls : ~sv[i].cancelOut /\ ~sv[i].enqOut
    /\ remote' = [stable |-> TRUE, datum |-> Some(datum), final |-> final]
    /\ UNCHANGED <<keyValid, callback, lastKnownDatum, lastKnownInstruction, timer, timeouts,
                   sv, up, ev, merge, selected>>

\* the answer of the stable remote side to the by-id lookup of update j
StableExec(j) ==
    IF IsSome(up[j].exec)
    THEN Some([Get(up[j].exec) EXCEPT !.state = remote.final])
    ELSE None

\* the requests of update j are answered, by the stable remote side with what
\* it holds
PollAnswered(j, In) ==
    \E a \in CallbackActs(In.acts) :
       IF remote.stable
       THEN UpdateDone(j, remote.datum, None, StableExec(j), a)
       ELSE \E d \in In.datums, p \in In.actives, e \in ExecInputs(j, In.looked) :
               UpdateDone(j, d, p, e, a)

\* value(desiredValue) called and answered while the remote side still changes
LiveSetValue(In) ==
    /\ ~remote.stable
    /\ \/ \E i \in SetCalls, d \in In.desired : SetValue(i, d, In.inflight)
       \/ \E i \in SetCalls : CancelDone(i)
       \/ \E i \in SetCalls, a \in CallbackActs(In.acts) :
             \E instr \in EnqueueInputs(sv[i].param, In.enqueued) : EnqueueDone(i, instr, a)

NextLive ==
    \/ LiveSetValue(LiveInputs)
    \/ \E j \in Updates : TimerFire(j, LiveInputs.inflight)
    \/ \E j \in Updates : PollAnswered(j, LiveInputs)
    \/ Start
    \/ \E datum \in StableDatums, final \in InstructionFinishedStates : Stabilise(datum, final)

\* a timeout that is set fires and a request that was issued is answered
SpecLive ==
    /\ InitCalls
    /\ [][NextLive]_vars
    /\ WF_vars(\E j \in Updates : TimerFire(j, LiveInputs.inflight))
    /\ WF_vars(\E j \in Updates : PollAnswered(j, LiveInputs))

\* the arguments #mostRecentValue is applied to: a datum or none, an
\* instruction or none, either of them with or without a date
MergeDatums ==
    {None} \cup {Some(Datum(v, t)) : v \in DatumValues, t \in 0..MaxTime}

MergeInstructions ==
    {None} \cup {Some([RemoteInstruction(i, s, v) EXCEPT !.created = IF dated THEN i ELSE 0]) :
                    i \in Ids, s \in ResponseStates, v \in ParamValues, dated \in BOOLEAN}

InitMerge ==
    /\ keyValid = TRUE
    /\ callback = "function"
    /\ lastKnownDatum = None
    /\ lastKnownInstruction = None
    /\ timer = "undefined"
    /\ timeouts = NoTimeouts
    /\ sv = [i \in SetCalls |-> IdleSet]
    /\ up = [j \in Updates |-> IdleUpdate]
    /\ ev = Quiet("init", 0)
    /\ merge \in [datum : MergeDatums, instr : MergeInstructions, result : {None}]
    /\ selected = NoSelect
    /\ remote = NoRemote

\* this.#mostRecentValue(controlDatum, instruction)
ApplyMerge ==
    /\ ~IsSome(merge.result)
    /\ merge' = [merge EXCEPT !.result = Some(mostRecentValue(merge.datum, merge.instr))]
    /\ UNCHANGED <<remote, selected, keyValid, callback, lastKnownDatum, lastKnownInstruction, timer,
                   timeouts, sv, up, ev>>

NextMerge == ApplyMerge

SpecMerge == InitMerge /\ [][NextMerge]_vars

\* the argument #getActiveInstruction is applied to: the list of a viewPending
\* response
InitSelect ==
    /\ keyValid = TRUE
    /\ callback = "function"
    /\ lastKnownDatum = None
    /\ lastKnownInstruction = None
    /\ timer = "undefined"
    /\ timeouts = NoTimeouts
    /\ sv = [i \in SetCalls |-> IdleSet]
    /\ up = [j \in Updates |-> IdleUpdate]
    /\ ev = Quiet("init", 0)
    /\ merge = NoMerge
    /\ selected \in [data : PendingListInputs, done : {FALSE}, result : {None}]
    /\ remote = NoRemote

\* this.#getActiveInstruction(data)
ApplySelect ==
    /\ ~selected.done
    /\ selected' = [selected EXCEPT !.done = TRUE,
                                    !.result = getActiveInstruction(selected.data)]
    /\ UNCHANGED <<remote, merge, keyValid, callback, lastKnownDatum, lastKnownInstruction,
                   timer, timeouts, sv, up, ev>>

NextSelect == ApplySelect

SpecSelect == InitSelect /\ [][NextSelect]_vars

----------------------------------------------------------------------------
(* Properties *)

\* a bound on the calls in flight that excludes no call
AnyInFlight == MaxSetCalls + MaxUpdates

\* C1: value(d) called while the cached instruction is Queued for a value
\* other than d and the cached datum's value is not d.
C1_Case(d) ==
    /\ keyValid
    /\ InstructionStateOf(lastKnownInstruction) = "Queued"
    /\ ~LooseEq(lastKnownInstructionValue(lastKnownInstruction), d)
    /\ ~LooseEq(DatumVal(lastKnownDatum), d)

\* C1: in that case the call issues the cancel request for the id of the cached
\* instruction and nothing else; the enqueue request is issued in the step in
\* which the cancel request succeeds; the two are never outstanding together;
\* and the call settles having issued exactly the cancel and then the enqueue.
C1_CancelThenEnqueue ==
    [][\A i \in SetCalls :
        /\ \A d \in DesiredValues :
              (C1_Case(d) /\ SetValue(i, d, AnyInFlight))
              => /\ sv'[i].reqs = <<"cancel">>
                 /\ ev'.cancelId = Get(lastKnownInstruction).id
                 /\ sv'[i].cancelOut /\ ~sv'[i].enqOut /\ sv'[i].chain
        /\ (sv[i].chain /\ sv'[i] # sv[i])
              => \/ /\ ev'.op = "cancelDone"
                    /\ sv'[i].reqs = <<"cancel", "enqueue">>
                    /\ sv'[i].enqOut /\ ~sv'[i].cancelOut
                 \/ /\ ev'.op = "cancelFail"
                    /\ ev'.reqs = <<"cancel">>
                    /\ sv'[i] = IdleSet
        /\ ~(sv'[i].cancelOut /\ sv'[i].enqOut)
        /\ (sv[i].reqs = <<"cancel", "enqueue">> /\ sv'[i] # sv[i])
              => /\ sv'[i] = IdleSet
                 /\ ev'.op \in {"enqueueDone", "enqueueFail"}
                 /\ ev'.reqs = <<"cancel", "enqueue">>
      ]_vars

C1_Witness ==
    /\ ev.op = "enqueueDone"
    /\ ev.settle = "resolved"
    /\ ev.reqs = <<"cancel", "enqueue">>

\* C2: value(v) called while the cached instruction is Queued and requests a
\* value equal (==) to v issues no request and resolves at once with the
\* cached instruction.
C2_Idempotent ==
    [][\A i \in SetCalls, v \in DesiredValues :
        (/\ keyValid
         /\ InstructionStateOf(lastKnownInstruction) = "Queued"
         /\ ToNumber(lastKnownInstructionValue(lastKnownInstruction)) = ToNumber(v)
         /\ SetValue(i, v, AnyInFlight))
        => /\ ev'.reqs = <<>>
           /\ sv'[i] = IdleSet
           /\ ev'.settle = "resolved"
           /\ ev'.retCmd = lastKnownInstruction
           /\ lastKnownInstruction' = lastKnownInstruction
      ]_vars

\* a second value(1) after value(1) was answered with a Queued instruction and
\* no datum was ever read
C2_Witness ==
    /\ ev.op = "setValue"
    /\ ev.settle = "resolved"
    /\ ev.reqs = <<>>
    /\ lastKnownDatum = None
    /\ IsSome(ev.retCmd)
    /\ Get(ev.retCmd).state = "Queued"

\* C3: the fast path of value(d): the cached datum's value or the cached
\* instruction's value equals d, and the cached instruction is not a Queued
\* instruction for another value.
C3_FastPath(d) ==
    /\ keyValid
    /\ \/ LooseEq(DatumVal(lastKnownDatum), d)
       \/ LooseEq(lastKnownInstructionValue(lastKnownInstruction), d)
    /\ ~(/\ InstructionStateOf(lastKnownInstruction) = "Queued"
         /\ ~LooseEq(lastKnownInstructionValue(lastKnownInstruction), d))

\* C3: on the fast path the call resolves at once with the cached instruction
\* (or undefined), issues no request, does not invoke the callback and leaves the
\* cached datum, the cached instruction and the timer as they were.
C3_FastPathFrame ==
    [][\A i \in SetCalls, d \in DesiredValues :
        (C3_FastPath(d) /\ SetValue(i, d, AnyInFlight))
        => /\ ev'.settle = "resolved"
           /\ ev'.retCmd = lastKnownInstruction
           /\ ev'.reqs = <<>>
           /\ ev'.cb = 0
           /\ sv'[i] = IdleSet
           /\ UNCHANGED <<lastKnownDatum, lastKnownInstruction, timer, timeouts>>
      ]_vars

\* the fast path taken because of the cached datum while a timeout is pending
C3_Witness ==
    /\ ev.op = "setValue"
    /\ ev.settle = "resolved"
    /\ ev.reqs = <<>>
    /\ ev.retCmd = None
    /\ IsSome(lastKnownDatum)
    /\ timer = "handle"
    /\ timeouts.cur

\* C4: when the enqueue request of value(d) succeeds, the cached instruction is
\* the instruction of the response, the callback was invoked once without an
\* error, and a state change is pending if that instruction is Queuing or Queued.
C4_EnqueueSucceeded ==
    ev.op = "enqueueDone"
    => /\ ev.settle = "resolved"
       /\ lastKnownInstruction = ev.retCmd
       /\ IsSome(ev.retCmd)
       /\ (callback # "undefined" => ev.cb = 1 /\ ev.cbErr = "none")
       /\ (Get(ev.retCmd).state \in {"Queuing", "Queued"}
             => hasPendingStateChange(lastKnownInstruction))

C4_Witness ==
    /\ ev.op = "enqueueDone"
    /\ callback = "function"
    /\ Get(ev.retCmd).state = "Queuing"

\* C5: the cached datum, and so the result of value(), changes only in the step
\* that resolves an update(): no step of a value(d) call changes it.
C5_OnlyUpdateChangesValue ==
    [][lastKnownDatum' # lastKnownDatum
        => /\ ev'.op = "updateDone"
           /\ \E j \in Updates : up[j].out /\ ~up'[j].out
      ]_vars

\* a first successful value(d) with no datum read before
C5_Witness ==
    /\ ev.op = "enqueueDone"
    /\ ev.settle = "resolved"
    /\ lastKnownDatum = None
    /\ IsSome(lastKnownInstruction)

\* C6: when the cancel or the enqueue request of value(d) fails, the promise of
\* the call rejects with the error, the callback is invoked with it, and the
\* cached instruction is not changed by the failure.
C6_FailureReported ==
    [][ev'.op \in {"cancelFail", "enqueueFail"}
        => /\ ev'.settle = "rejected"
           /\ ev'.err = "network"
           /\ (callback # "undefined" => ev'.cb = 1 /\ ev'.cbErr = "network")
           /\ lastKnownInstruction' = lastKnownInstruction
      ]_vars

\* C7: with an invalid signing key value(v) and update() reject with the
\* credentials error, issue no request and leave the cached datum, the cached
\* instruction, the timer and the calls in flight as they were.
C7_InvalidCredentials ==
    [][(/\ ~keyValid
        /\ \/ \E i \in SetCalls, v \in DesiredValues : SetValue(i, v, AnyInFlight)
           \/ \E j \in Updates : Update(j, AnyInFlight))
        => /\ ev'.settle = "rejected"
           /\ ev'.err = "InvalidCredentials"
           /\ ev'.reqs = <<>>
           /\ UNCHANGED <<lastKnownDatum, lastKnownInstruction, timer, timeouts, sv, up>>
      ]_vars

\* a call rejected for its credentials on a started toggler with a cached
\* datum and instruction
C7_Witness ==
    /\ ev.err = "InvalidCredentials"
    /\ ev.op \in {"setValue", "update"}
    /\ IsSome(lastKnownDatum)
    /\ IsSome(lastKnownInstruction)
    /\ timer = "handle"
    /\ timeouts.cur

\* C8: every error of a value(d) or update() call is passed to the registered
\* callback, once.
C8_EveryErrorDelivered ==
    (callback # "undefined" /\ ev.err # "none")
    => ev.cb = 1 /\ ev.cbErr = ev.err

\* C9 as claimed: the promise of an update() whose request failed rejects.
C9_UpdateRejects ==
    ev.op = "updateFail" => ev.settle = "rejected"

\* C9 amended: when a request of update() fails, the error is passed to the
\* registered callback and the promise of the call resolves with undefined.
C9_UpdateResolvesUndefined ==
    ev.op = "updateFail"
    => /\ ev.settle = "resolved"
       /\ ev.retVal = "undefined"
       /\ ev.err = "network"
       /\ (callback # "undefined" => ev.cb = 1 /\ ev.cbErr = "network")

C9_Witness ==
    /\ ev.op = "updateFail"
    /\ callback = "function"
    /\ IsSome(lastKnownDatum)

\* C10: after an update() failed while #timer holds a timeout id, a timeout for
\* the next update() is pending.
C10_PollingSurvivesError ==
    (ev.op = "updateFail" /\ timer = "handle")
    => (timeouts.cur \/ timeouts.orphans > 0)

\* C11: when a request of update() fails, that update changes neither the cached
\* datum nor the cached instruction, whatever the other requests were answered
\* with.
C11_AllOrNothing ==
    [][\A j \in Updates :
        (up[j].out /\ ~up'[j].out /\ ev'.op = "updateFail")
        => UNCHANGED <<lastKnownDatum, lastKnownInstruction>>
      ]_vars

\* a failed update() on a toggler that has a datum and an active instruction
\* cached
C11_Witness ==
    /\ ev.op = "updateFail"
    /\ IsSome(lastKnownDatum)
    /\ hasPendingStateChange(lastKnownInstruction)

\* C12: right after stop() on a toggler with no update() in flight, no timeout
\* of the toggler is pending.
C12_StopLeavesNoTimer ==
    (ev.op = "stop" /\ \A j \in Updates : ~up[j].out)
    => (~timeouts.cur /\ timeouts.orphans = 0)

\* C13: an update() started by a timeout that resolves after stop() was called
\* while it was in flight, or whose callback calls stop(), sets no timeout.
C13_StoppedUpdateSetsNoTimer ==
    [][\A j \in Updates :
        (/\ up[j].out /\ up[j].src = "timer"
         /\ ~up'[j].out /\ ev'.op = "updateDone"
         /\ (timer = "null" \/ ev'.stopped))
        => (ev'.ms = 0 /\ ~timeouts'.cur)
      ]_vars

\* C14: an update() called by a caller while #timer held no timeout id, and
\* settling while it still holds none, sets no timeout.
C14_ManualUpdateSetsNoTimer ==
    [][\A j \in Updates :
        (/\ up[j].out /\ up[j].src = "stopped"
         /\ timer # "handle"
         /\ ~up'[j].out /\ ev'.op \in {"updateDone", "updateFail"})
        => (ev'.ms = 0 /\ ~timeouts'.cur)
      ]_vars

\* C15: start() while the timeout #timer refers to is pending sets no timeout
\* and changes nothing; a start() right after a start() sets none either, and
\* after a start() that set a timeout exactly that one is pending more than
\* before.
C15_StartIdempotent ==
    [][ev'.op = "start"
        => /\ timeouts.cur
              => (ev'.ms = 0 /\ UNCHANGED <<timer, timeouts>>)
           /\ ev.op = "start"
              => (ev'.ms = 0 /\ UNCHANGED <<timer, timeouts>>)
           /\ ev'.ms # 0
              => /\ ~timeouts.cur /\ timeouts'.cur
                 /\ timeouts'.orphans = timeouts.orphans
      ]_vars

\* a start() that found the timeout of an earlier start() pending and set none
C15_Witness ==
    /\ ev.op = "start"
    /\ ev.ms = 0
    /\ timer = "handle"
    /\ timeouts = [cur |-> TRUE, orphans |-> 0]
    /\ \A j \in Updates : ~up[j].out

\* C16: applied to no instruction or to a Declined instruction,
\* #mostRecentValue returns what it returns for the datum and no instruction:
\* the value of the datum, or undefined when there is no datum.
C16_DeclinedIgnored ==
    (/\ IsSome(merge.result)
     /\ (~IsSome(merge.instr) \/ Get(merge.instr).state = "Declined"))
    => /\ Get(merge.result) = mostRecentValue(merge.datum, None)
       /\ Get(merge.result) = IF IsSome(merge.datum) THEN Get(merge.datum).val
                              ELSE "undefined"

\* a Declined instruction newer than the datum and requesting another value
C16_Witness ==
    /\ IsSome(merge.result)
    /\ IsSome(merge.datum) /\ IsSome(merge.instr)
    /\ Get(merge.instr).state = "Declined"
    /\ Get(merge.datum).created > 0
    /\ Get(merge.instr).created > Get(merge.datum).created
    /\ Get(merge.datum).val = "n0" /\ Get(merge.instr).value = "s1"
    /\ Get(merge.result) = "n0"

\* C17: applied to an instruction that is not Declined, #mostRecentValue returns
\* the requested value when there is no datum; when both carry a date it returns
\* the value of the datum if the datum is strictly newer and the requested value
\* otherwise, equal dates included.
C17_NewerWins ==
    (/\ IsSome(merge.result)
     /\ IsSome(merge.instr) /\ Get(merge.instr).state # "Declined")
    => /\ ~IsSome(merge.datum) => Get(merge.result) = Get(merge.instr).value
       /\ (/\ IsSome(merge.datum)
            /\ Get(merge.datum).created # 0 /\ Get(merge.instr).created # 0)
           => Get(merge.result) =
                 IF Get(merge.datum).created > Get(merge.instr).created
                 THEN Get(merge.datum).val
                 ELSE Get(merge.instr).value

\* equal dates: the requested value wins over a different datum value
C17_Witness ==
    /\ IsSome(merge.result)
    /\ IsSome(merge.datum) /\ IsSome(merge.instr)
    /\ Get(merge.instr).state = "Completed"
    /\ Get(merge.datum).created = MaxTime
    /\ Get(merge.instr).created = Get(merge.datum).created
    /\ Get(merge.datum).val = "n0" /\ Get(merge.instr).value = "s1"
    /\ Get(merge.result) = "s1"

\* C18 as claimed: the state of the cached instruction belongs to exactly one of
\* the active set and the finished set.
C18_ExactlyOneSet ==
    IsSome(lastKnownInstruction)
    => (Get(lastKnownInstruction).state \in InstructionActiveStates)
          # (Get(lastKnownInstruction).state \in InstructionFinishedStates)

\* C18 amended: the two sets are disjoint and together hold the six instruction
\* states; the state of the cached instruction belongs to at most one of them,
\* and to neither exactly when it is not the name of one of the six, in which
\* case no state change is pending and update() does not look the instruction up.
C18_AtMostOneSet ==
    /\ InstructionActiveStates \cap InstructionFinishedStates = {}
    /\ InstructionActiveStates \cup InstructionFinishedStates = InstructionStates
    /\ IsSome(lastKnownInstruction)
       => LET state == Get(lastKnownInstruction).state
          IN  /\ ~(state \in InstructionActiveStates /\ state \in InstructionFinishedStates)
              /\ (state \notin InstructionActiveStates \cup InstructionFinishedStates)
                    <=> state \notin InstructionStates
              /\ state \notin InstructionStates
                    => /\ ~hasPendingStateChange(lastKnownInstruction)
                       /\ ~ShouldLookup(lastKnownInstruction)

\* an update() stored the looked-up instruction in the state "Complete"
C18_Witness ==
    /\ ev.op = "updateDone"
    /\ IsSome(lastKnownInstruction)
    /\ Get(lastKnownInstruction).state = "Complete"

\* C19: a state change is pending exactly when an instruction is cached and its
\* state is Queuing, Queued, Received or Executing.
C19_PendingIffActive ==
    hasPendingStateChange(lastKnownInstruction)
    <=> /\ IsSome(lastKnownInstruction)
        /\ Get(lastKnownInstruction).state \in {"Queuing", "Queued", "Received", "Executing"}

\* the enqueue request was answered with a Queuing instruction
C19_Witness ==
    /\ ev.op = "enqueueDone"
    /\ IsSome(lastKnownInstruction)
    /\ Get(lastKnownInstruction).state = "Queuing"
    /\ hasPendingStateChange(lastKnownInstruction)

\* C20: #currentRefreshMs is pendingRefreshMs exactly when a state change is
\* pending and refreshMs otherwise, and the timeout set by a resolved update()
\* or by the restart after an enqueue has the delay that goes with the
\* instruction cached when it is set.
C20_RefreshInterval ==
    LET active == /\ IsSome(lastKnownInstruction)
                  /\ Get(lastKnownInstruction).state \in InstructionActiveStates
    IN  /\ currentRefreshMs(lastKnownInstruction) =
              IF hasPendingStateChange(lastKnownInstruction) THEN pendingRefreshMs
              ELSE refreshMs
        /\ (ev.op \in {"updateDone", "enqueueDone"} /\ ev.ms # 0)
              => ev.ms = IF active THEN pendingRefreshMs ELSE refreshMs

\* the restart after an enqueue on a started toggler uses the pending interval
C20_Witness ==
    /\ ev.op = "enqueueDone"
    /\ ev.ms = pendingRefreshMs
    /\ timer = "handle"
    /\ timeouts.cur

----------------------------------------------------------------------------
(* C21 *)

\* the event of an update() call that passed the credentials check
UpdateCalled == ev.op \in {"update", "timerUpdate"} /\ ev.err = "none"

\* C21 as claimed: an update() with valid credentials issues the most recent
\* datum query and the pending instructions query, and the by-id lookup exactly
\* when an instruction is cached whose state is not in the finished set; all are
\* issued in the call, before any is answered.
C21_LookupIffNotFinished ==
    UpdateCalled
    => /\ SubSeq(ev.reqs, 1, 2) = <<"mostRecent", "viewPending">>
       /\ (Len(ev.reqs) = 3 /\ ev.reqs[3] = "viewInstruction")
             <=> /\ IsSome(lastKnownInstruction)
                 /\ Get(lastKnownInstruction).state \notin InstructionFinishedStates
       /\ Len(ev.reqs) \in {2, 3}
       /\ \E j \in Updates : up[j].out

\* C21 amended: the by-id lookup is issued exactly when an instruction is cached
\* whose state is in the active set; a cached instruction whose state is the
\* name of none of the six states is not looked up.
C21_LookupIffActive ==
    UpdateCalled
    => /\ SubSeq(ev.reqs, 1, 2) = <<"mostRecent", "viewPending">>
       /\ (Len(ev.reqs) = 3 /\ ev.reqs[3] = "viewInstruction")
             <=> /\ IsSome(lastKnownInstruction)
                 /\ Get(lastKnownInstruction).state \in InstructionActiveStates
       /\ Len(ev.reqs) \in {2, 3}
       /\ \E j \in Updates :
             /\ up[j].out
             /\ up[j].exec = IF Len(ev.reqs) = 3 THEN lastKnownInstruction ELSE None

\* an update() was called with an active instruction cached and issued three requests
C21_Witness ==
    /\ UpdateCalled
    /\ Len(ev.reqs) = 3
    /\ hasPendingStateChange(lastKnownInstruction)

\* an update() was called with a cached instruction in a state outside both sets
C21_WitnessNoLookup ==
    /\ UpdateCalled
    /\ Len(ev.reqs) = 2
    /\ IsSome(lastKnownInstruction)
    /\ Get(lastKnownInstruction).state \notin InstructionStates

----------------------------------------------------------------------------
(* C22 *)

\* an update() resolved that had looked up the active cached instruction, found
\* no active instruction of the control in the pending list, got the cached
\* instruction back as Completed and a datum that is not newer than it
CompletedByLookup ==
    /\ ev.op = "updateDone"
    /\ hasPendingStateChange(ev.looked)
    /\ ev.got.pending = None
    /\ ev.got.exec = Some([Get(ev.looked) EXCEPT !.state = "Completed"])
    /\ IsSome(ev.got.datum)
    /\ ~Newer(Get(ev.got.datum).created, Get(ev.got.exec).created)

\* C22: completion is confirmed through the by-id lookup: after such an update
\* value() is the value the instruction asked for, the cached instruction is the
\* Completed one and no state change is pending.
C22_CompletionByLookup ==
    CompletedByLookup
    => /\ DatumVal(lastKnownDatum) = Get(ev.looked).value
       /\ lastKnownInstruction = ev.got.exec
       /\ Get(lastKnownInstruction).state = "Completed"
       /\ ~hasPendingStateChange(lastKnownInstruction)
       /\ ev.retVal = Get(ev.looked).value

\* such an update resolved although the datum fetched carries another value
C22_Witness ==
    /\ CompletedByLookup
    /\ Get(ev.got.datum).val = "n0"
    /\ Get(ev.looked).value = "s1"

----------------------------------------------------------------------------
(* C23 *)

\* the timer after a handler that sets a timeout of ms milliseconds when
\* #timer passes its test
TimerSetIf(test, ms) ==
    IF test
    THEN timer = "handle" /\ timeouts.cur /\ ev.ms = ms
    ELSE ev.ms = 0

\* C23: an exception thrown by the callback is swallowed: the promise settles as
\* it does when the callback returns, the caches hold what the handler stored and
\* the next timeout is set.
C23_CallbackErrorSwallowed ==
    ev.threw
    => /\ ev.cb = 1
       /\ ev.op \in {"updateDone", "updateFail", "enqueueDone", "enqueueFail", "cancelFail"}
       /\ ev.op = "updateDone"
             => /\ ev.settle = "resolved" /\ ev.err = "none"
                /\ ev.retVal = DatumVal(lastKnownDatum)
                /\ lastKnownDatum = StoredDatum(ev.got.datum, ev.got.pending, ev.merged)
                /\ lastKnownInstruction = StoredInstruction(ev.got.exec, ev.got.pending)
                /\ TimerSetIf(timer # "undefined", currentRefreshMs(lastKnownInstruction))
       /\ ev.op = "enqueueDone"
             => /\ ev.settle = "resolved" /\ ev.err = "none"
                /\ IsSome(lastKnownInstruction)
                /\ ev.retCmd = lastKnownInstruction
                /\ TimerSetIf(timer = "handle", currentRefreshMs(lastKnownInstruction))
       /\ ev.op = "updateFail"
             => ev.settle = "resolved" /\ ev.err = "network" /\ ev.retVal = "undefined"
       /\ ev.op \in {"enqueueFail", "cancelFail"}
             => ev.settle = "rejected" /\ ev.err = "network"

\* the callback threw in a timer-driven update() that stored a new datum, and
\* the next timeout is set
C23_Witness ==
    /\ ev.threw
    /\ ev.op = "updateDone"
    /\ IsSome(lastKnownDatum)
    /\ timer = "handle" /\ timeouts.cur

\* the callback threw after a successful enqueue while polling
C23_WitnessSetValue ==
    /\ ev.threw
    /\ ev.op = "enqueueDone"
    /\ timer = "handle" /\ timeouts.cur

----------------------------------------------------------------------------
(* C25 *)

\* an update() resolved after answers to all its requests
UpdateResolved == ev.op = "updateDone" /\ ev.settle = "resolved" /\ ev.err = "none"

\* C25: a successful update() resolves with the value value() returns once the
\* caches are assigned, the value of the cached datum after the merge; it is the
\* value #mostRecentValue returned unless an active instruction is in the
\* pending list, no datum was fetched or that value is falsy.
C25_ResolvesWithValue ==
    UpdateResolved
    => /\ ev.retVal = DatumVal(lastKnownDatum)
       /\ (IsSome(ev.got.datum) /\ ~IsSome(ev.got.pending) /\ Truthy(ev.merged))
             => ev.retVal = ev.merged

\* an update() resolved with the value of the instruction looked up, which it
\* wrote into the datum fetched
C25_Witness ==
    /\ UpdateResolved
    /\ IsSome(ev.got.exec)
    /\ IsSome(ev.got.datum)
    /\ ev.retVal = Get(ev.got.exec).value
    /\ ev.retVal # Get(ev.got.datum).val

\* an update() resolved with the value of the datum fetched while an active
\* instruction of the pending list asks for another value
C25_WitnessPending ==
    /\ UpdateResolved
    /\ IsSome(ev.got.pending)
    /\ IsSome(ev.got.datum)
    /\ ev.merged = Get(ev.got.pending).value
    /\ ev.retVal = Get(ev.got.datum).val

----------------------------------------------------------------------------
(* C26 *)

\* the event of a call of value(desiredValue) that passed the credentials check
SetValueCalled == ev.op = "setValue" /\ ev.err = "none"

\* number of requests of a kind in a sequence of requests
Count(reqs, kind) == Len(SelectSeq(reqs, LAMBDA r : r = kind))

\* C26: value(d) issues a cancel request exactly when the cached instruction is
\* Queued and its value is not == d; an instruction in any other state is never
\* cancelled, and the cancel request carries the id of the instruction that was
\* cached when value(d) was called.
C26_CancelIffQueued ==
    SetValueCalled
    => LET held == ev.call.held
           cancels == Count(ev.reqs, "cancel")
       IN  /\ cancels \in {0, 1}
           /\ cancels = 1
                 <=> /\ IsSome(held)
                     /\ Get(held).state = "Queued"
                     /\ ~LooseEq(Get(held).value, ev.call.desired)
           /\ (IsSome(held) /\ Get(held).state # "Queued") => cancels = 0
           /\ ev.cancelId = IF cancels = 1 THEN Get(held).id ELSE 0
           /\ sv[ev.call.i].cancelOut <=> cancels = 1

\* value(d) cancelled the Queued instruction it found cached
C26_Witness ==
    /\ SetValueCalled
    /\ ev.cancelId # 0
    /\ ev.cancelId = Get(ev.call.held).id

\* value(d) left an Executing instruction for another value alone
C26_WitnessNotQueued ==
    /\ SetValueCalled
    /\ IsSome(ev.call.held)
    /\ Get(ev.call.held).state = "Executing"
    /\ ~LooseEq(Get(ev.call.held).value, ev.call.desired)
    /\ ev.cancelId = 0

----------------------------------------------------------------------------
(* C27 *)

\* C27: value(d) issues an enqueue request, at once or chained to its cancel
\* request, exactly when the value of the cached datum is not == d and the value
\* of the cached instruction, absent when the instruction was cleared for the
\* cancel, is not == d; a call issues at most one enqueue request, and its
\* parameter is String(d).
C27_EnqueueIffDiffers ==
    /\ \A i \in SetCalls :
          /\ Count(sv[i].reqs, "enqueue") \in {0, 1}
          /\ sv[i].enqOut => Count(sv[i].reqs, "enqueue") = 1
          /\ sv[i].chain => Count(sv[i].reqs, "enqueue") = 0 /\ sv[i].cancelOut
    /\ SetValueCalled
       => LET call == sv[ev.call.i]
              d == ev.call.desired
              currentValue == DatumVal(lastKnownDatum)
              pendingValue == IF Count(ev.reqs, "cancel") = 1 THEN "undefined"
                              ELSE lastKnownInstructionValue(ev.call.held)
          IN  /\ (call.enqOut \/ call.chain)
                    <=> (~LooseEq(currentValue, d) /\ ~LooseEq(pendingValue, d))
              /\ (call.enqOut \/ call.chain) => call.param = String(d)
              /\ call.enqOut <=> Count(ev.reqs, "enqueue") = 1
              /\ ~(call.enqOut \/ call.chain) => ev.settle = "resolved"

\* value(true) issued one enqueue request with the parameter "true"
C27_Witness ==
    /\ SetValueCalled
    /\ ev.call.desired = "bT"
    /\ ev.reqs = <<"enqueue">>
    /\ sv[ev.call.i].param = "strue"

\* value(d) issued no enqueue request because the cached instruction asks for d
C27_WitnessPendingEqual ==
    /\ SetValueCalled
    /\ ev.reqs = <<>>
    /\ ~LooseEq(DatumVal(lastKnownDatum), ev.call.desired)
    /\ IsSome(ev.call.held)

----------------------------------------------------------------------------
(* C29 *)

\* C29: when the enqueue request of value(d) succeeds while #timer holds a
\* timeout id, and the callback does not call stop(), the timeout is cleared and
\* one timeout is set with currentRefreshMs() of the instruction just stored;
\* when #timer holds none (never started, or stopped before the answer or by
\* the callback) no timeout is set.
C29_RestartIffPolling ==
    [][ev'.op = "enqueueDone"
       => IF timer = "handle" /\ ~ev'.stopped
          THEN /\ timer' = "handle"
               /\ timeouts' = [cur |-> TRUE, orphans |-> timeouts.orphans]
               /\ ev'.ms = currentRefreshMs(lastKnownInstruction')
               /\ ev'.ms = IF Get(lastKnownInstruction').state \in InstructionActiveStates
                           THEN pendingRefreshMs ELSE refreshMs
          ELSE /\ timer' = IF ev'.stopped /\ timer = "handle" THEN "null" ELSE timer
               /\ timeouts' = [cur |-> timeouts.cur /\ timer # "handle",
                               orphans |-> timeouts.orphans]
               /\ ev'.ms = 0]_vars

\* the enqueue request succeeded while polling and the timer was restarted with
\* the interval of a pending state change
C29_Witness ==
    /\ ev.op = "enqueueDone"
    /\ timer = "handle" /\ timeouts.cur
    /\ ev.ms = pendingRefreshMs

\* the enqueue request succeeded after stop() and no timeout is pending
C29_WitnessStopped ==
    /\ ev.op = "enqueueDone"
    /\ timer = "null"
    /\ ~timeouts.cur /\ timeouts.orphans = 0
    /\ ev.ms = 0

----------------------------------------------------------------------------
(* C30 *)

\* the entries of a list that are SetControlParameter instructions of this control
Candidates(data) ==
    {k \in 1..Len(data) : data[k].topicOk /\ data[k].nameOk}

\* C30: the active instruction selected from a pending list is an entry of the
\* SetControlParameter topic whose first parameter is named after the control,
\* none of these entries was created later, entries of other controls or topics
\* are never selected, and nothing is selected when no entry qualifies.
C30_NewestOfThisControl ==
    selected.done
    => LET data == selected.data
       IN  IF Candidates(data) = {}
           THEN selected.result = None
           ELSE /\ IsSome(selected.result)
                /\ \E k \in Candidates(data) : data[k].instr = Get(selected.result)
                /\ \A k \in Candidates(data) :
                      data[k].instr.created <= Get(selected.result).created

\* the instruction of the control was selected from a list that ends with a
\* later created instruction of another control
C30_Witness ==
    /\ selected.done
    /\ Len(selected.data) = 2
    /\ Candidates(selected.data) = {1}
    /\ selected.data[2].topicOk
    /\ selected.data[2].instr.created > selected.data[1].instr.created
    /\ selected.result = Some(selected.data[1].instr)

\* the later created of two instructions of the control was selected
C30_WitnessNewest ==
    /\ selected.done
    /\ Candidates(selected.data) = {1, 2}
    /\ selected.data[1].instr.created > selected.data[2].instr.created
    /\ selected.result = Some(selected.data[1].instr)

----------------------------------------------------------------------------
(* C28 *)

\* C28: value(d) clears the cached instruction in the call that issues the
\* cancel request, and the handler chained to the cancel request clears it again
\* before it issues the enqueue request: in both steps no instruction is cached
\* afterwards, also when an update() stored one in between.
C28_ClearedTwice ==
    /\ (SetValueCalled /\ Count(ev.reqs, "cancel") = 1)
          => lastKnownInstruction = None /\ ev.cleared = ev.call.held
    /\ (ev.op = "cancelDone" /\ Count(ev.reqs, "enqueue") = 1)
          => /\ lastKnownInstruction = None
             /\ \E i \in SetCalls : sv[i].enqOut /\ sv[i].reqs = ev.reqs

\* the cancel request was answered after an update() had stored an instruction,
\* and the enqueue request was issued with no instruction cached
C28_Witness ==
    /\ ev.op = "cancelDone"
    /\ Count(ev.reqs, "enqueue") = 1
    /\ IsSome(ev.cleared)
    /\ lastKnownInstruction = None

----------------------------------------------------------------------------
(* C24 *)

\* start() was called, the remote side has stopped changing and the toggler
\* does not show its datum, or shows a pending state change
PolledStable ==
    /\ remote.stable
    /\ timer = "handle"
    /\ ~Shows(Get(remote.datum))

\* an update() has made the toggler show the stable datum and no pending state
\* change, and has invoked the callback
Converged ==
    /\ remote.stable
    /\ Shows(Get(remote.datum))
    /\ ev.op = "updateDone" /\ ev.cb = 1

\* the stable datum is newer than the cached instruction, or the instruction
\* is or ends Declined
DatumPrevails ==
    /\ remote.stable
    /\ \/ ~IsSome(lastKnownInstruction)
       \/ IsDeclined(lastKnownInstruction)
       \/ hasPendingStateChange(lastKnownInstruction) /\ remote.final = "Declined"
       \/ Newer(Get(remote.datum).created, Get(lastKnownInstruction).created)

\* C24 as claimed: once start() was called, stop() is never called, every
\* request succeeds and the remote side is stable with a newest datum of value w
\* and no pending instruction, eventually value() is w, no state change is
\* pending and the callback has been invoked.
C24_Converges == PolledStable ~> Converged

\* C24 amended: the same when the stable datum is newer than the instruction
\* the toggler holds, or that instruction is or ends Declined; a Completed
\* instruction that is not older than the datum keeps its value in value().
C24_ConvergesWhenNewer == (PolledStable /\ DatumPrevails) ~> Converged

\* polling brought the toggler to show the stable datum after the instruction it
\* held was looked up and found Completed
C24_Witness ==
    /\ Converged
    /\ timer = "handle"
    /\ IsSome(ev.got.exec)
    /\ Get(lastKnownInstruction).state = "Completed"
    /\ ev.got.datum = remote.datum
    /\ Get(remote.datum).val = "n1"

----------------------------------------------------------------------------
(* C31 *)

\* the instruction of highest precedence among the one looked up, the active
\* one of the pending list and the cached one
Preferred(exec, pending, cached) ==
    IF exec # None THEN exec ELSE IF pending # None THEN pending ELSE cached

\* C31: the instruction update() hands to #mostRecentValue is the one looked up
\* by id if the lookup gave one, else the active one selected from the pending
\* list, else the cached one; the one looked up is used also when the pending
\* list holds a later created instruction of the control.
C31_MergePrecedence ==
    [][ev'.op = "updateDone"
       => ev'.merged = mostRecentValue(ev'.got.datum,
                          Preferred(ev'.got.exec, ev'.got.pending, lastKnownInstruction))]_vars

\* the value of the instruction looked up was merged although the pending list
\* holds a later created instruction of the control asking for another value
C31_Witness ==
    /\ ev.op = "updateDone"
    /\ IsSome(ev.got.exec) /\ IsSome(ev.got.pending)
    /\ Get(ev.got.pending).created > Get(ev.got.exec).created
    /\ Get(ev.got.pending).value # Get(ev.got.exec).value
    /\ ev.merged = Get(ev.got.exec).value

\* the value of the cached instruction was merged: nothing was looked up and the
\* pending list held no instruction of the control
C31_WitnessCached ==
    /\ ev.op = "updateDone"
    /\ ~IsSome(ev.got.exec) /\ ~IsSome(ev.got.pending)
    /\ IsSome(lastKnownInstruction)
    /\ ev.merged = Get(lastKnownInstruction).value
    /\ ev.merged # DatumVal(ev.got.datum)

----------------------------------------------------------------------------
(* C32 *)

\* C32: a resolved update() assigns the caches and invokes the callback, once
\* and without an error, exactly when the merged value is not the value value()
\* returned before or the by-id lookup gave an instruction; otherwise the cached
\* datum and instruction stay as they were and the callback is not invoked.
C32_AppliesIffChanged ==
    [][ev'.op = "updateDone" /\ ev'.settle = "resolved"
       => IF ev'.merged # DatumVal(lastKnownDatum) \/ IsSome(ev'.got.exec)
          THEN /\ ev'.cb = 1 /\ ev'.cbErr = "none"
               /\ lastKnownInstruction'
                    = IF IsSome(ev'.got.exec) THEN ev'.got.exec ELSE ev'.got.pending
               /\ IsSome(lastKnownDatum') = IsSome(ev'.got.datum)
          ELSE /\ ev'.cb = 0
               /\ lastKnownDatum' = lastKnownDatum
               /\ lastKnownInstruction' = lastKnownInstruction]_vars

\* an instruction looked up was stored and the callback invoked although the
\* merged value is the value value() returned before and returns now
C32_Witness ==
    /\ ev.op = "updateDone" /\ ev.settle = "resolved"
    /\ IsSome(ev.got.exec) /\ lastKnownInstruction = ev.got.exec
    /\ ev.cb = 1
    /\ ev.merged = ev.retVal
    /\ IsSome(ev.got.datum) /\ Get(ev.got.datum).val = ev.merged

\* nothing was looked up and the merged value is the cached one: no callback,
\* and the cached instruction, which the answers do not hold, is kept
C32_WitnessUnchanged ==
    /\ ev.op = "updateDone" /\ ev.settle = "resolved"
    /\ ~IsSome(ev.got.exec) /\ ~IsSome(ev.got.pending)
    /\ ev.cb = 0
    /\ IsSome(lastKnownInstruction)
    /\ ev.merged = DatumVal(lastKnownDatum)

----------------------------------------------------------------------------
(* C33 *)

\* update() assigned the caches, a datum of the control was fetched and the
\* pending list held no active instruction of the control
ForcedCase ==
    /\ ev.op = "updateDone" /\ ev.settle = "resolved" /\ ev.cb = 1
    /\ IsSome(ev.got.datum) /\ ~IsSome(ev.got.pending)

\* C33 as claimed: when update() assigns the caches, a datum was fetched and no
\* active instruction was selected from the pending list, value() afterwards is
\* the merged value of that update, whatever that value is.
C33_ForcedValue == ForcedCase => DatumVal(lastKnownDatum) = ev.merged

\* the merged value is the empty string of a completed instruction and value()
\* still is the value of the older datum
C33_WitnessFalsy ==
    /\ ForcedCase
    /\ ev.merged = "sE"
    /\ DatumVal(lastKnownDatum) = Get(ev.got.datum).val
    /\ DatumVal(lastKnownDatum) # ev.merged

----------------------------------------------------------------------------
(* C34 *)

\* C34: when update() assigns the caches, the cached instruction becomes the
\* one the by-id lookup gave if it gave one, else the active one selected from
\* the pending list, else none; an instruction cached before that is neither
\* looked up nor in the pending list is dropped.
C34_StoredInstruction ==
    [][ev'.op = "updateDone" /\ ev'.settle = "resolved" /\ ev'.cb = 1
       => /\ lastKnownInstruction'
               = IF IsSome(ev'.got.exec) THEN ev'.got.exec ELSE ev'.got.pending
          /\ (~IsSome(ev'.got.exec) /\ ~IsSome(ev'.got.pending)
                => lastKnownInstruction' = None)]_vars

\* the cached instruction was looked up, the lookup gave no data and the pending
\* list none of the control: after the caches were assigned none is cached
C34_Witness ==
    /\ ev.op = "updateDone" /\ ev.settle = "resolved" /\ ev.cb = 1
    /\ IsSome(ev.looked)
    /\ ~IsSome(ev.got.exec) /\ ~IsSome(ev.got.pending)
    /\ lastKnownInstruction = None

\* the instruction the lookup gave is cached although the pending list holds
\* another one
C34_WitnessLookup ==
    /\ ev.op = "updateDone" /\ ev.settle = "resolved" /\ ev.cb = 1
    /\ IsSome(ev.got.exec) /\ IsSome(ev.got.pending)
    /\ ev.got.pending # ev.got.exec
    /\ lastKnownInstruction = ev.got.exec

----------------------------------------------------------------------------
(* C35 *)

\* C35 as claimed: when update() assigns the caches, the cached datum is
\* replaced as a whole by the datum fetched for the control, if one was fetched;
\* when none was fetched a datum cached before is left in place.
C35_DatumKeptWhenNoneFetched ==
    [][ev'.op = "updateDone" /\ ev'.settle = "resolved" /\ ev'.cb = 1
       => IF IsSome(ev'.got.datum)
          THEN /\ IsSome(lastKnownDatum')
               /\ Get(lastKnownDatum').created = Get(ev'.got.datum).created
               /\ Get(lastKnownDatum').val \in {Get(ev'.got.datum).val, ev'.merged}
          ELSE lastKnownDatum' = lastKnownDatum]_vars

\* the first half alone: a fetched datum replaces the cached one as a whole
C35_FetchedDatumReplaces ==
    [][ev'.op = "updateDone" /\ ev'.settle = "resolved" /\ ev'.cb = 1
          /\ IsSome(ev'.got.datum)
       => /\ IsSome(lastKnownDatum')
          /\ Get(lastKnownDatum').created = Get(ev'.got.datum).created
          /\ Get(lastKnownDatum').val \in {Get(ev'.got.datum).val, ev'.merged}]_vars

----------------------------------------------------------------------------
(* C36 *)

\* update() resolved after another call had cached an active instruction,
\* which its requests were issued too early to look up
UpdateRaced == ev.op = "updateDone" /\ ev.settle = "resolved" /\ IsSome(ev.late)

\* C36 as claimed: of a value(desiredValue) and an update() in flight together
\* the one that resolves last determines the cached instruction: an update()
\* called before the enqueue request was answered and resolving after it
\* replaces the enqueued instruction by the one it looked up or selected from
\* the pending list, possibly none.
C36_LastResolvedWins ==
    UpdateRaced
    => lastKnownInstruction
         = IF IsSome(ev.got.exec) THEN ev.got.exec ELSE ev.got.pending

\* C36 amended: such an update() replaces the enqueued instruction only when it
\* assigns the caches, that is when the merged value is not the value value()
\* returned before or the by-id lookup gave an instruction; otherwise the
\* enqueued instruction stays cached.
C36_LastAppliedWins ==
    [][ev'.op = "updateDone" /\ ev'.settle = "resolved" /\ IsSome(ev'.late)
       => /\ ev'.late = lastKnownInstruction
          /\ IF ev'.merged # DatumVal(lastKnownDatum) \/ IsSome(ev'.got.exec)
             THEN lastKnownInstruction'
                    = IF IsSome(ev'.got.exec) THEN ev'.got.exec ELSE ev'.got.pending
             ELSE lastKnownInstruction' = lastKnownInstruction]_vars

\* the enqueued instruction was replaced by none: the answers of the update()
\* hold no instruction
C36_Witness ==
    /\ UpdateRaced /\ ev.cb = 1
    /\ ~IsSome(ev.got.exec) /\ ~IsSome(ev.got.pending)
    /\ lastKnownInstruction = None

\* the enqueued instruction stays cached: the datum fetched is newer than it
\* and holds the value value() returned before
C36_WitnessKept ==
    /\ UpdateRaced /\ ev.cb = 0
    /\ lastKnownInstruction = ev.late
    /\ ev.got.pending # ev.late
    /\ IsSome(ev.got.datum)
    /\ Get(ev.got.datum).created > Get(ev.late).created

----------------------------------------------------------------------------
(* C37 *)

\* number of timeouts of the toggler that are pending
Scheduled == (IF timeouts.cur THEN 1 ELSE 0) + timeouts.orphans

\* C37 as claimed: in every reachable state at most one timeout of the toggler
\* is pending, the one #timer refers to and stop() clears.
C37_AtMostOneTimer == Scheduled <= 1

----------------------------------------------------------------------------
(* C38 *)

\* value(desiredValue) issued a cancel request and no enqueue request
CancelOnly == ev.op = "setValue" /\ ev.err = "none" /\ ev.reqs = <<"cancel">>
              /\ ~sv[ev.call.i].chain

\* C38 as claimed: a value(d) that issues a cancel request but no enqueue
\* request settles only after the cancel request is answered: the call itself
\* settles nothing, the answer resolves the promise and invokes the callback
\* without an error, a failure rejects it and hands the error to the callback.
C38_CancelIsAwaited ==
    /\ CancelOnly => ev.settle = "none"
    /\ (ev.op = "cancelDone" /\ ev.reqs = <<"cancel">>)
         => ev.settle = "resolved" /\ ev.cb = 1 /\ ev.cbErr = "none"
    /\ (ev.op = "cancelFail" /\ ev.reqs = <<"cancel">>)
         => ev.settle = "rejected" /\ ev.cb = 1 /\ ev.cbErr = "network"

----------------------------------------------------------------------------
(* C39 *)

\* value(d) was called while the cached instruction, which asks for d, is
\* Completed or Declined and the cached datum does not hold d
FinishedAsksSame ==
    /\ SetValueCalled
    /\ InstructionStateOf(ev.call.held) \in InstructionFinishedStates
    /\ LooseEq(lastKnownInstructionValue(ev.call.held), ev.call.desired)
    /\ ~LooseEq(DatumVal(lastKnownDatum), ev.call.desired)

\* C39 as claimed: the cached instruction makes value(d) skip the enqueue
\* request only while it is active: with a cached instruction asking for d that
\* is Completed or Declined and a cached datum that does not hold d, value(d)
\* issues an enqueue request.
C39_FinishedDoesNotSuppress ==
    FinishedAsksSame => Count(ev.reqs, "enqueue") = 1

\* value(d) resolved at once with the Declined instruction asking for d, no
\* request issued
C39_WitnessSuppressed ==
    /\ FinishedAsksSame
    /\ InstructionStateOf(ev.call.held) = "Declined"
    /\ ev.reqs = <<>>
    /\ ev.settle = "resolved" /\ ev.retCmd = ev.call.held

----------------------------------------------------------------------------
(* C40 *)

\* update() resolved having selected an active instruction of the control from
\* the pending list
PendingSelected ==
    ev.op = "updateDone" /\ ev.settle = "resolved" /\ IsSome(ev.got.pending)

\* C40 as claimed: after an update() that selected an active instruction from
\* the pending list, value() is the value of the datum fetched (undefined when
\* none was fetched), not the value the instruction asks for, and
\* hasPendingStateChange is true.
C40_PendingLeavesReading ==
    PendingSelected
    => /\ DatumVal(lastKnownDatum) = DatumVal(ev.got.datum)
       /\ hasPendingStateChange(lastKnownInstruction)

\* C40 amended: this holds when the update() assigns the caches and the by-id
\* lookup gave no instruction; whenever the caches are assigned value() is the
\* value of the datum fetched.
C40_PendingLeavesReadingWhenApplied ==
    /\ (PendingSelected /\ ev.cb = 1)
         => DatumVal(lastKnownDatum) = DatumVal(ev.got.datum)
    /\ (PendingSelected /\ ev.cb = 1 /\ ~IsSome(ev.got.exec))
         => /\ lastKnownInstruction = ev.got.pending
            /\ hasPendingStateChange(lastKnownInstruction)

\* the merged value is the one the pending instruction asks for, value() is the
\* value of the datum fetched and a state change is pending
C40_Witness ==
    /\ PendingSelected /\ ev.cb = 1 /\ ~IsSome(ev.got.exec)
    /\ IsSome(ev.got.datum)
    /\ ev.merged = Get(ev.got.pending).value
    /\ DatumVal(lastKnownDatum) = Get(ev.got.datum).val
    /\ DatumVal(lastKnownDatum) # ev.merged
    /\ hasPendingStateChange(lastKnownInstruction)

\* the instruction looked up is cached, Completed: no state change is pending
\* although the pending list holds an active instruction
C40_WitnessLookup ==
    /\ PendingSelected /\ ev.cb = 1 /\ IsSome(ev.got.exec)
    /\ lastKnownInstruction = ev.got.exec
    /\ ~hasPendingStateChange(lastKnownInstruction)

====
